---------------------------- MODULE Spec2Model ----------------------------
(***************************************************************************)
(* PolySche: exact rational arithmetic (rational.hpp), Gauss-Jordan        *)
(* elimination (polysche/gauss.hpp), vector-valued polynomials             *)
(* (polysche/polynomial.hpp) and the scheme builder                        *)
(* (polynomial_scheme.hpp).                                                *)
(*                                                                         *)
(* Integers are mathematical integers: the values explored stay far below  *)
(* the width of the instantiated integer type, so no product overflows.    *)
(* Arrays are functions over 0..size-1, as indexed in the source.          *)
(***************************************************************************)
EXTENDS Integers, FiniteSets, Sequences, TLC

VARIABLES
    matrix,     \* PolynomialScheme::matrix of the current builder
    index,      \* PolynomialScheme::index of the current builder
    overrun,    \* whether an add_eqn call has stored past the matrix
    S,          \* what solve() returned on the current builder, or NoValue
    recv,       \* the last add_eqn call: its receiver after the call, its row
    gN,         \* gauss_inv, gauss_solve: the template parameter N
    gA,         \* gauss_inv, gauss_solve: the argument A
    gInv,       \* gauss_inv: the returned matrix, or NoValue
    lhs,        \* Rational operators: left operand
    rhs,        \* Rational operators: right operand
    op,         \* Rational operators: the last operation applied
    res,        \* Rational operators: the Rational it returned
    flag,       \* Rational operators: the bool it returned
    den,        \* Rational operators: the qq the last constructor call got
    P,          \* Polynomial: the receiver
    pop,        \* Polynomial: the last member function called, with arguments
    Q,          \* Polynomial: the polynomial it returned
    vec,        \* Polynomial: the array it returned
    elim,       \* gauss: the frame of the call (A, j, r) and its last pivot
    sol,        \* gauss_solve: the argument b and what the call came to
    ndebug      \* whether the build defines NDEBUG (assert compiled out)

schemeVars == <<matrix, index, overrun, S, recv>>
gaussVars  == <<gN, gA, gInv>>
ratVars    == <<lhs, rhs, op, res, flag, den>>
polyVars   == <<P, pop, Q, vec>>
elimVars   == <<elim>>
solveVars  == <<sol>>
vars       == <<matrix, index, overrun, S, recv, gN, gA, gInv,
                lhs, rhs, op, res, flag, den, P, pop, Q, vec,
                elim, sol, ndebug>>

\* "nothing returned yet"
NoValue == "none"

-----------------------------------------------------------------------------
(* Integer helpers: <numeric> and the built-in operators of C++             *)

\* |n| of a signed integer
IntAbs(n) == IF n < 0 THEN -n ELSE n

\* the built-in integer division: truncation toward zero (b # 0)
TruncDiv(a, b) ==
    LET m == IntAbs(a) \div IntAbs(b)
    IN  IF (a < 0) # (b < 0) THEN -m ELSE m

RECURSIVE Euclid(_, _)
Euclid(a, b) == IF b = 0 THEN a ELSE Euclid(b, a % b)

\* std::gcd: the greatest common divisor of |m| and |n| (0 when both are 0)
StdGcd(m, n) == Euclid(IntAbs(m), IntAbs(n))

\* std::lcm: 0 when either is 0, else |m| * |n| / gcd
StdLcm(m, n) ==
    IF m = 0 \/ n = 0 THEN 0
    ELSE (IntAbs(m) \div StdGcd(m, n)) * IntAbs(n)

\* std::signbit of an integer (converted to double): set iff negative
StdSignbit(n) == n < 0

Xor(a, b) == a # b

\* std::array<T, size> holding F(0), ..., F(size-1).  Merging with the
\* empty function stores the elements instead of recomputing each one
\* whenever it is read.
Array(size, F(_)) == [i \in 0..(size - 1) |-> F(i)] @@ <<>>

-----------------------------------------------------------------------------
(* rational.hpp                                                             *)

\* struct Rational: the two fields
Rat(pp, qq) == [p |-> pp, q |-> qq]

\* The constructor with sign normalisation left out.
RationalNoSign(pp, qq) ==
    IF qq = 0 THEN Rat(pp, 0)
    ELSE LET g == StdGcd(pp, qq)
         IN  Rat(TruncDiv(pp, g), TruncDiv(qq, g))

\* Rational::Rational(pp, qq) in a build with assert enabled (RationalNDEBUG
\* is the other build).  A zero qq trips the assertion: the value
\* p/0 stands for "no Rational was constructed".
Rational(pp, qq) ==
    IF qq = 0 THEN Rat(pp, 0)
    ELSE LET g  == StdGcd(pp, qq)
             p1 == TruncDiv(pp, g)
             q1 == TruncDiv(qq, g)
         IN  IF q1 < 0 THEN Rat(-p1, -q1) ELSE Rat(p1, q1)

\* The constructor in a build that defines NDEBUG: the assertion is compiled
\* out and a zero qq is replaced by 1 before the reduction.
RationalNDEBUG(pp, qq) == Rational(pp, IF qq = 0 THEN 1 ELSE qq)

is_valid(r) == r.q # 0

is_zero(r) == r.p = 0

\* as_rational on an integer: Rational{v}
as_rational(v) == Rational(v, 1)

\* operator*
Mul(l, r) == Rational(l.p * r.p, l.q * r.q)

\* operator/
Div(l, r) == Rational(l.p * r.q, l.q * r.p)

\* operator/ in a build that defines NDEBUG
DivNDEBUG(l, r) == RationalNDEBUG(l.p * r.q, l.q * r.p)

\* operator+
\* operator+ with the right numerator scaled by the left operand's factor.
AddLeftFactor(l, r) ==
    LET lcm == StdLcm(l.q, r.q)
    IN  Rational(l.p * TruncDiv(lcm, l.q) + r.p * TruncDiv(lcm, l.q), lcm)

Add(l, r) ==
    LET lcm == StdLcm(l.q, r.q)
    IN  Rational(l.p * TruncDiv(lcm, l.q) + r.p * TruncDiv(lcm, r.q), lcm)

\* operator-
Sub(l, r) ==
    LET lcm == StdLcm(l.q, r.q)
    IN  Rational(l.p * TruncDiv(lcm, l.q) - r.p * TruncDiv(lcm, r.q), lcm)

\* operator==
Eq(l, r) == l.p * r.q = l.q * r.p

\* operator<
\* operator< testing the sign of the right denominator the wrong way.
LtWrongSign(l, r) ==
    LET a == l.p * r.q
        b == l.q * r.p
    IN  IF Xor(l.q < 0, r.q < 0) THEN a < b ELSE a > b

Lt(l, r) ==
    LET a == l.p * r.q
        b == l.q * r.p
    IN  IF Xor(l.q < 0, r.q > 0) THEN a < b ELSE a > b

\* operator>
Gt(l, r) ==
    LET a == l.p * r.q
        b == l.q * r.p
    IN  IF Xor(l.q < 0, r.q > 0) THEN a > b ELSE a < b

\* signbit(Rational)
signbit(r) == ~ Xor(StdSignbit(r.p), StdSignbit(r.q))

\* abs(Rational)
abs(r) == Rational(IF r.p >= 0 THEN r.p ELSE -r.p,
                   IF r.q >= 0 THEN r.q ELSE -r.q)

\* T(0) and T(1)
Zero == Rational(0, 1)
One  == Rational(1, 1)

-----------------------------------------------------------------------------
(* polysche/gauss.hpp                                                       *)

\* swap_array(A[k], A[r])
swap_array(A, k, r) == [A EXCEPT ![k] = A[r], ![r] = A[k]]

\* gauss, lines 34-41: the row k that ends the pivot search started at k
\* and continued from row i; a later row wins only when strictly greater.
\* The pivot search keeping the candidate of least absolute value.
RECURSIVE PivotSearchLeast(_, _, _, _, _)
PivotSearchLeast(A, j, i, k, M) ==
    IF i >= M THEN k
    ELSE IF Lt(abs(A[i][j]), abs(A[k][j]))
         THEN PivotSearchLeast(A, j, i + 1, i, M)
         ELSE PivotSearchLeast(A, j, i + 1, k, M)

RECURSIVE PivotSearch(_, _, _, _, _)
PivotSearch(A, j, i, k, M) ==
    IF i >= M THEN k
    ELSE IF Gt(abs(A[i][j]), abs(A[k][j]))
         THEN PivotSearch(A, j, i + 1, i, M)
         ELSE PivotSearch(A, j, i + 1, k, M)

\* gauss, lines 45-46: row k divided by the pivot value kv
NormalizeRow(A, k, kv, N) ==
    [A EXCEPT ![k] = Array(N, LAMBDA jj : Div(A[k][jj], kv))]

\* Elimination that starts below the pivot row instead of at row 0.
EliminateBelow(A, j, r, M, N) ==
    Array(M, LAMBDA i :
        IF i > r
        THEN Array(N, LAMBDA jj : Sub(A[i][jj], Mul(A[r][jj], A[i][j])))
        ELSE A[i])

\* gauss, lines 51-59: column j cleared from every row but r
Eliminate(A, j, r, M, N) ==
    Array(M, LAMBDA i :
        IF i # r
        THEN Array(N, LAMBDA jj : Sub(A[i][jj], Mul(A[r][jj], A[i][j])))
        ELSE A[i])

\* gauss, lines 32-62: the loop from column j with pivot row r
RECURSIVE GaussLoop(_, _, _, _, _)
GaussLoop(A, j, r, M, N) ==
    IF ~ (j < N /\ r < M) THEN A
    ELSE LET k  == PivotSearch(A, j, r + 1, r, M)
             kv == A[k][j]
         IN  IF Eq(kv, Zero) THEN GaussLoop(A, j + 1, r, M, N)
             ELSE LET A1 == NormalizeRow(A, k, kv, N)
                      A2 == IF k # r THEN swap_array(A1, k, r) ELSE A1
                      A3 == Eliminate(A2, j, r, M, N)
                  IN  GaussLoop(A3, j + 1, r + 1, M, N)

\* gauss(A) for an M x N matrix
gauss(A, M, N) == GaussLoop(A, 0, 0, M, N)

\* gauss_inv, lines 96-104: A augmented with the identity
Augment(A, N) ==
    Array(N, LAMBDA i :
        Array(2 * N, LAMBDA j :
            IF j < N THEN A[i][j]
            ELSE IF i = j - N THEN One ELSE Zero))

\* gauss_inv(A) for an N x N matrix
gauss_inv(A, N) ==
    LET reducted_A == gauss(Augment(A, N), N, 2 * N)
    IN  Array(N, LAMBDA i : Array(N, LAMBDA j : reducted_A[i][j + N]))

-----------------------------------------------------------------------------
(* polysche/polynomial.hpp                                                  *)
(* A Polynomial<T, Degree, N> is the record of its two template parameters  *)
(* and its coeffs table.                                                    *)

\* gauss_solve's augmented_A: A with b as column N
AugmentVector(A, b, N) ==
    Array(N, LAMBDA i : Array(N + 1, LAMBDA j :
        IF j < N THEN A[i][j] ELSE b[i]))

\* gauss_solve(A, b).  The division for solution[i] constructs a Rational
\* with denominator 0 when reducted_A[i][i] is zero; the assertion then ends
\* the call and no array is returned.
gauss_solve(A, b, N) ==
    LET reducted_A == gauss(AugmentVector(A, b, N), N, N + 1)
        solution == Array(N, LAMBDA i :
                        Div(reducted_A[i][N], reducted_A[i][i]))
    IN  IF \E i \in 0..(N - 1) : ~ is_valid(solution[i])
        THEN [kind |-> "assert"]
        ELSE [kind |-> "array", x |-> solution]

\* gauss_solve(A, b) in a build that defines NDEBUG: every division returns
\* a Rational and the array is returned.
gauss_solveNDEBUG(A, b, N) ==
    LET reducted_A == gauss(AugmentVector(A, b, N), N, N + 1)
    IN  [kind |-> "array",
         x |-> Array(N, LAMBDA i :
                   DivNDEBUG(reducted_A[i][N], reducted_A[i][i]))]

Poly(Degree, N, coeffs) == [Degree |-> Degree, N |-> N, coeffs |-> coeffs]

\* Polynomial(T const& value): every coefficient set to value
PolyFill(Degree, N, value) ==
    Poly(Degree, N,
         Array(Degree + 1, LAMBDA d : Array(N, LAMBDA i : value)))

\* operator(), lines 39-46: the loop from `degree` with xi = x^degree
RECURSIVE EvalLoop(_, _, _, _, _)
EvalLoop(p, x, degree, xi, result) ==
    IF ~ (degree < p.Degree + 1) THEN result
    ELSE EvalLoop(p, x, degree + 1, Mul(xi, x),
                  Array(p.N, LAMBDA i :
                      Add(result[i], Mul(p.coeffs[degree][i], xi))))

\* operator()(x)
Eval(p, x) ==
    EvalLoop(p, x, 1, x, Array(p.N, LAMBDA i : p.coeffs[0][i]))

\* derivate, lines 59-62: one differentiation into a zero-filled polynomial
DerivateStep(p) ==
    Poly(p.Degree, p.N,
         Array(p.Degree + 1, LAMBDA d : Array(p.N, LAMBDA i :
             IF d + 1 <= p.Degree
             THEN Mul(as_rational(d + 1), p.coeffs[d + 1][i])
             ELSE Zero)))

\* derivate(order)
RECURSIVE derivate(_, _)
derivate(p, order) ==
    IF order = 0 \/ p.Degree = 0 THEN p
    ELSE IF p.Degree = 1 THEN PolyFill(p.Degree, p.N, Zero)
    ELSE derivate(DerivateStep(p), order - 1)

\* primitive()
primitive(p) ==
    Poly(p.Degree + 1, p.N,
         Array(p.Degree + 2, LAMBDA d : Array(p.N, LAMBDA i :
             IF d >= 1 THEN Div(p.coeffs[d - 1][i], as_rational(d))
             ELSE Zero)))

\* integrate that returns the primitive at b without subtracting it at a.
integrateUpperOnly(p, a, b) == Eval(primitive(p), b)

\* integrate with the two evaluations subtracted the wrong way round.
integrateSwapped(p, a, b) ==
    LET PP == primitive(p)
        Pa == Eval(PP, a)
        Pb == Eval(PP, b)
    IN  Array(p.N, LAMBDA i : Sub(Pa[i], Pb[i]))

\* integrate(a, b)
integrate(p, a, b) ==
    LET PP == primitive(p)
        Pa == Eval(PP, a)
        Pb == Eval(PP, b)
    IN  Array(p.N, LAMBDA i : Sub(Pb[i], Pa[i]))

-----------------------------------------------------------------------------
(* polynomial_scheme.hpp                                                    *)
(* A PolynomialScheme<Order> is the record of its matrix and its index.     *)

\* the template parameter Order of the builder
Order == 2

Scheme(m, idx) == [matrix |-> m, index |-> idx]

\* PolynomialScheme<Order>{}: every Rational default-constructed to 0/1
NewScheme ==
    Scheme(Array(Order + 1, LAMBDA i : Array(Order + 1, LAMBDA j : Zero)), 0)

\* get_polynomial()
get_polynomial ==
    Poly(Order, Order + 1,
         Array(Order + 1, LAMBDA degree : Array(Order + 1, LAMBDA i :
             IF i = degree THEN One ELSE Zero)))

\* add_eqn that forgets to advance the cursor.
add_eqnNoAdvance(PS, coeffs) ==
    IF PS.index <= Order
    THEN {Scheme([PS.matrix EXCEPT ![PS.index] = coeffs], PS.index)}
    ELSE {Scheme(PS.matrix, PS.index + 1)}

\* add_eqn(coeffs): the builders the call can return.  There is no bounds
\* check: with index > Order the assignment matrix[index] = coeffs writes
\* past the array (undefined behaviour).  The matrix is the first member
\* and index the next one, so a store at matrix[Order + 1] either lands on
\* index, which then holds coeffs[0].p before the increment, or is not
\* observed by the increment (index kept in a register); beyond that row
\* the store is outside the object.
add_eqn(PS, coeffs) ==
    IF PS.index <= Order
    THEN {Scheme([PS.matrix EXCEPT ![PS.index] = coeffs], PS.index + 1)}
    ELSE IF PS.index = Order + 1
    THEN {Scheme(PS.matrix, PS.index + 1),
          Scheme(PS.matrix, coeffs[0].p + 1)}
    ELSE {Scheme(PS.matrix, PS.index + 1)}

\* solve() handing out the inverse transposed.
solveTransposed(PS) ==
    LET inv == gauss_inv(PS.matrix, Order + 1)
    IN  Poly(Order, Order + 1,
             Array(Order + 1, LAMBDA d : Array(Order + 1, LAMBDA i : inv[i][d])))

\* solve(): noexcept, always returns a polynomial
solve(PS) == Poly(Order, Order + 1, gauss_inv(PS.matrix, Order + 1))

-----------------------------------------------------------------------------
(* Linear algebra used to state the properties (not part of the program)    *)

SqMatrices(N, Values) == [0..(N - 1) -> [0..(N - 1) -> Values]]

Identity(N) == Array(N, LAMBDA i : Array(N, LAMBDA j :
                   IF i = j THEN One ELSE Zero))

RECURSIVE DotFrom(_, _, _, _, _)
DotFrom(X, Y, i, j, d) ==
    IF d < 0 THEN Zero
    ELSE Add(DotFrom(X, Y, i, j, d - 1), Mul(X[i][d], Y[d][j]))

\* the product of two N x N matrices
MatMul(X, Y, N) ==
    Array(N, LAMBDA i : Array(N, LAMBDA j : DotFrom(X, Y, i, j, N - 1)))

\* A without row 0 and column c
Minor(A, N, c) ==
    Array(N - 1, LAMBDA i : Array(N - 1, LAMBDA j :
        A[i + 1][IF j < c THEN j ELSE j + 1]))

RECURSIVE Det(_, _)
RECURSIVE DetFrom(_, _, _)
DetFrom(A, N, c) ==
    IF c < 0 THEN Zero
    ELSE LET term == Mul(A[0][c], Det(Minor(A, N, c), N - 1))
         IN  IF c % 2 = 0 THEN Add(DetFrom(A, N, c - 1), term)
                          ELSE Sub(DetFrom(A, N, c - 1), term)

\* the determinant, expanded along row 0
Det(A, N) == IF N = 1 THEN A[0][0] ELSE DetFrom(A, N, N - 1)

Singular(A, N) == is_zero(Det(A, N))

-----------------------------------------------------------------------------
(* Idle values of the variables a specification does not use                *)

SchemeIdle == /\ matrix = NoValue /\ index = 0 /\ overrun = FALSE
              /\ S = [kind |-> NoValue] /\ recv = [called |-> FALSE]
GaussIdle  == gN = 0 /\ gA = NoValue /\ gInv = [kind |-> NoValue]
RatIdle    == /\ lhs = Zero /\ rhs = Zero /\ op = NoValue
              /\ res = Zero /\ flag = FALSE /\ den = 1
PolyIdle   == /\ P = NoValue /\ pop = [name |-> NoValue]
              /\ Q = NoValue /\ vec = NoValue
ElimIdle   == elim = [kind |-> NoValue]
SolveIdle  == sol = [kind |-> NoValue]
\* Only a division by zero tells the two builds apart; a specification
\* whose calls never divide by zero is followed in the build with assert.
AssertBuild == ndebug = FALSE

-----------------------------------------------------------------------------
(* The scheme builder: a chain of add_eqn calls on a fresh builder, then    *)
(* solve().  solve() is const, so what add_eqn does after it is what it     *)
(* does before it; the chain is followed up to the first solve().  Once a   *)
(* call has stored past the matrix the memory around the builder is         *)
(* corrupted, and the chain is not followed further.                        *)

\* abscissae of the constraints: the integers -MaxPoint..MaxPoint
MaxPoint == 1

Points == {as_rational(x) : x \in (-MaxPoint)..MaxPoint}

\* the rows a caller passes to add_eqn: P(x) and P.derivate()(x) of the
\* basis polynomial P = get_polynomial()
ConstraintRows ==
    {Eval(get_polynomial, x) : x \in Points}
        \cup {Eval(derivate(get_polynomial, 1), x) : x \in Points}

Init ==
    /\ matrix = NewScheme.matrix
    /\ index = NewScheme.index
    /\ overrun = FALSE
    /\ S = [kind |-> NoValue]
    /\ recv = [called |-> FALSE]
    /\ GaussIdle /\ RatIdle /\ PolyIdle
    /\ ElimIdle /\ SolveIdle /\ AssertBuild

\* PS = PS.add_eqn(coeffs).  add_eqn is a const member function working on
\* a copy of *this: the receiver is after the call what it was before.
AddEqn ==
    /\ S.kind = NoValue
    /\ ~ overrun
    /\ \E coeffs \in ConstraintRows :
         \E PS \in add_eqn(Scheme(matrix, index), coeffs) :
            /\ matrix' = PS.matrix
            /\ index' = PS.index
            /\ recv' = [called |-> TRUE, matrix |-> matrix, index |-> index,
                        coeffs |-> coeffs]
    /\ overrun' = (index > Order)
    /\ UNCHANGED <<S, gaussVars, ratVars, polyVars,
                 elimVars, solveVars, ndebug>>

\* S = PS.solve()
Solve ==
    /\ S.kind = NoValue
    /\ ~ overrun
    /\ S' = [kind |-> "polynomial", poly |-> solve(Scheme(matrix, index))]
    /\ UNCHANGED <<matrix, index, overrun, recv, gaussVars, ratVars, polyVars,
                 elimVars, solveVars, ndebug>>

Next == AddEqn \/ Solve

Spec == Init /\ [][Next]_vars

\* C1: a builder filled by exactly Order+1 add_eqn calls with a non-singular
\* matrix M solves to a polynomial S with M * S.coeffs = identity: channel
\* i satisfies constraint i with value 1 and every other one with value 0.
C1_DualBasis ==
    (S.kind = "polynomial" /\ index = Order + 1
        /\ ~ Singular(matrix, Order + 1)) =>
        /\ S.poly.Degree = Order /\ S.poly.N = Order + 1
        /\ \A k \in 0..Order : \A i \in 0..Order :
              DotFrom(matrix, S.poly.coeffs, k, i, Order)
                  = IF k = i THEN One ELSE Zero

\* C1 witness: the central finite-difference scheme P(-1), P(0), P(1) is
\* solved, and its X row holds the stencil (-1/2, 0, 1/2).
C1_Witness ==
    /\ S.kind = "polynomial" /\ index = Order + 1 /\ ~ overrun
    /\ ~ Singular(matrix, Order + 1)
    /\ matrix[0] = Eval(get_polynomial, as_rational(-1))
    /\ matrix[1] = Eval(get_polynomial, as_rational(0))
    /\ matrix[2] = Eval(get_polynomial, as_rational(1))
    /\ S.poly.coeffs[1][0] = Rational(-1, 2)
    /\ S.poly.coeffs[1][1] = Zero
    /\ S.poly.coeffs[1][2] = Rational(1, 2)

\* C2 (as claimed): in every state reachable by add_eqn calls the cursor
\* stays within 0..Order+1 and no call stores a row outside the matrix.
C2_CursorInRange ==
    /\ index \in 0..(Order + 1)
    /\ ~ overrun

\* C3 (as claimed): solve() on an under-filled builder (index < Order+1)
\* never returns a polynomial.
C3_UnderfilledSolveFails ==
    ~ (S.kind = "polynomial" /\ index < Order + 1)

\* C14: after add_eqn(row) on a builder B whose cursor k is below Order+1
\* the returned builder holds row at k, its cursor is k+1 and its other rows
\* are B's, while B is what it was; any other add_eqn call on the same B
\* returns a builder with cursor k+1 that differs from the first one in row
\* k only.
C14_AddEqnFrame ==
    (recv.called /\ recv.index < Order + 1) =>
        LET k == recv.index
            B == Scheme(recv.matrix, recv.index)
        IN  /\ index = k + 1
            /\ matrix[k] = recv.coeffs
            /\ \A i \in 0..Order : i # k => matrix[i] = B.matrix[i]
            /\ \A row \in ConstraintRows : \A PS \in add_eqn(B, row) :
                  /\ PS.index = k + 1
                  /\ PS.matrix[k] = row
                  /\ \A i \in 0..Order : i # k => PS.matrix[i] = matrix[i]

\* C14 witness: a second row was added to a builder that held one row; the
\* first row is kept and the receiver still has its cursor on row 1.
C14_Witness ==
    /\ recv.called /\ recv.index = 1 /\ index = 2
    /\ matrix[0] = Eval(get_polynomial, as_rational(-1))
    /\ matrix[1] = Eval(get_polynomial, as_rational(1))
    /\ recv.coeffs = matrix[1]
    /\ recv.matrix[0] = matrix[0]
    /\ recv.matrix[1] # matrix[1]

-----------------------------------------------------------------------------
(* The finite-volume scheme: the builder is filled with the integrals of    *)
(* the basis polynomial over unit cells, solved, and the solution is        *)
(* integrated between half-integer points.                                  *)

\* make_finite_volume's rows: the integrals of P over the cells
\* [(2i-1)/2, (2i+1)/2] for i from -Order/2 to Order/2
CellRows ==
    {integrate(get_polynomial, Rational(2 * i - 1, 2), Rational(2 * i + 1, 2)) :
        i \in (- TruncDiv(Order, 2))..TruncDiv(Order, 2)}

\* the points S is integrated between: n/2 for n in -MaxHalf..MaxHalf
MaxHalf == 1
HalfPoints == {Rational(n, 2) : n \in (-MaxHalf)..MaxHalf}

\* PS = PS.add_eqn(P.integrate(a, b)) over one of the cells
AddCellEqn ==
    /\ S.kind = NoValue
    /\ ~ overrun
    /\ \E coeffs \in CellRows :
         \E PS \in add_eqn(Scheme(matrix, index), coeffs) :
            /\ matrix' = PS.matrix
            /\ index' = PS.index
            /\ recv' = [called |-> TRUE, matrix |-> matrix, index |-> index,
                        coeffs |-> coeffs]
    /\ overrun' = (index > Order)
    /\ UNCHANGED <<S, gaussVars, ratVars, polyVars,
                 elimVars, solveVars, ndebug>>

\* S.integrate(a, b) on the solved scheme
SchemeIntegrate ==
    /\ S.kind = "polynomial"
    /\ pop.name = NoValue
    /\ \E a \in HalfPoints : \E b \in HalfPoints :
         /\ vec' = integrate(S.poly, a, b)
         /\ pop' = [name |-> "integrate", a |-> a, b |-> b]
    /\ UNCHANGED <<P, Q, schemeVars, gaussVars, ratVars,
                 elimVars, solveVars, ndebug>>

NextVolume == AddCellEqn \/ Solve \/ SchemeIntegrate

SpecVolume == Init /\ [][NextVolume]_vars

\* the builder holds the three cell integrals u_{-1}, u_0, u_1 of order 2,
\* is solved, and S.integrate(-1/2, 0) has been called
LeftHalfCell ==
    /\ Order = 2 /\ index = Order + 1 /\ ~ overrun
    /\ matrix[0] = integrate(get_polynomial, Rational(-3, 2), Rational(-1, 2))
    /\ matrix[1] = integrate(get_polynomial, Rational(-1, 2), Rational(1, 2))
    /\ matrix[2] = integrate(get_polynomial, Rational(1, 2), Rational(3, 2))
    /\ S.kind = "polynomial"
    /\ pop = [name |-> "integrate", a |-> Rational(-1, 2), b |-> Zero]

-----------------------------------------------------------------------------
(* gauss_inv called on small square matrices                                *)

\* the largest N of a gauss_inv call
MaxN == 2

\* the entries the argument matrices are drawn from
EntryValues == {Rational(-2, 1), Rational(0, 1), Rational(1, 1)}

InitGauss ==
    /\ gN \in 1..MaxN
    /\ gA \in SqMatrices(gN, EntryValues)
    /\ gInv = [kind |-> NoValue]
    /\ SchemeIdle /\ RatIdle /\ PolyIdle
    /\ ElimIdle /\ SolveIdle /\ AssertBuild

\* auto iA = gauss_inv(A): noexcept, always returns an array
GaussInv ==
    /\ gInv.kind = NoValue
    /\ gInv' = [kind |-> "matrix", inv |-> gauss_inv(gA, gN)]
    /\ UNCHANGED <<gN, gA, schemeVars, ratVars, polyVars,
                 elimVars, solveVars, ndebug>>

NextGauss == GaussInv

SpecGauss == InitGauss /\ [][NextGauss]_vars

\* C5: for every non-singular N x N matrix A over exact rationals,
\* gauss_inv(A) * A and A * gauss_inv(A) are both the identity matrix.
C5_InverseBothSides ==
    (gInv.kind = "matrix" /\ ~ Singular(gA, gN)) =>
        /\ MatMul(gInv.inv, gA, gN) = Identity(gN)
        /\ MatMul(gA, gInv.inv, gN) = Identity(gN)

\* C5 witness: a non-singular matrix whose first pivot is found in the
\* second row (|-2| > |1|, so the rows are swapped) has been inverted.
C5_Witness ==
    /\ gInv.kind = "matrix" /\ gN = 2 /\ ~ Singular(gA, gN)
    /\ gA[0][0] = One /\ gA[1][0] = Rational(-2, 1)
    /\ gA[0][1] = One /\ gA[1][1] = Zero
    /\ gInv.inv[0][1] = Rational(-1, 2)

\* C4 (as claimed): gauss_inv applied to a singular matrix never returns a
\* matrix as if it were the inverse.
C4_SingularIsReported ==
    ~ (gInv.kind = "matrix" /\ Singular(gA, gN))

-----------------------------------------------------------------------------
(* gauss called on small M x N matrices and followed one iteration of its   *)
(* column loop at a time.  elim is the frame of the call: the argument In,  *)
(* the locals A, j, r, the pivot columns found so far and what the last     *)
(* iteration did.                                                           *)

Matrices(M, N, Values) == [0..(M - 1) -> [0..(N - 1) -> Values]]

NoStep == [taken |-> NoValue]

InitElim ==
    /\ \E M \in 1..MaxN : \E N \in 1..MaxN :
         \E X \in Matrices(M, N, EntryValues) :
            elim = [kind |-> "running", M |-> M, N |-> N, In |-> X,
                    A |-> X, j |-> 0, r |-> 0, piv |-> <<>>, step |-> NoStep]
    /\ SchemeIdle /\ GaussIdle /\ RatIdle /\ PolyIdle
    /\ SolveIdle /\ AssertBuild

\* the row the pivot search of the current iteration ends on
PivotRow == PivotSearch(elim.A, elim.j, elim.r + 1, elim.r, elim.M)

\* an iteration whose best candidate is zero: continue
GaussSkip ==
    /\ elim.kind = "running"
    /\ elim.j < elim.N /\ elim.r < elim.M
    /\ LET k  == PivotRow
           kv == elim.A[k][elim.j]
       IN  /\ Eq(kv, Zero)
           /\ elim' = [elim EXCEPT
                  !.j = elim.j + 1,
                  !.step = [taken |-> "skip", A |-> elim.A, j |-> elim.j,
                            r |-> elim.r, k |-> k]]
    /\ UNCHANGED <<schemeVars, gaussVars, ratVars, polyVars, solveVars, ndebug>>

\* an iteration that finds a pivot: normalise its row, swap it into row r,
\* eliminate the column from every other row, ++r
GaussPivot ==
    /\ elim.kind = "running"
    /\ elim.j < elim.N /\ elim.r < elim.M
    /\ LET k  == PivotRow
           kv == elim.A[k][elim.j]
           A1 == NormalizeRow(elim.A, k, kv, elim.N)
           A2 == IF k # elim.r THEN swap_array(A1, k, elim.r) ELSE A1
           A3 == Eliminate(A2, elim.j, elim.r, elim.M, elim.N)
       IN  /\ ~ Eq(kv, Zero)
           /\ elim' = [elim EXCEPT
                  !.A = A3,
                  !.j = elim.j + 1,
                  !.r = elim.r + 1,
                  !.piv = Append(elim.piv, elim.j),
                  !.step = [taken |-> "pivot", A |-> elim.A, j |-> elim.j,
                            r |-> elim.r, k |-> k]]
    /\ UNCHANGED <<schemeVars, gaussVars, ratVars, polyVars, solveVars, ndebug>>

\* the loop condition fails: return A
GaussReturn ==
    /\ elim.kind = "running"
    /\ ~ (elim.j < elim.N /\ elim.r < elim.M)
    /\ elim' = [elim EXCEPT !.kind = "returned"]
    /\ UNCHANGED <<schemeVars, gaussVars, ratVars, polyVars, solveVars, ndebug>>

NextElim == GaussSkip \/ GaussPivot \/ GaussReturn

SpecElim == InitElim /\ [][NextElim]_vars

\* |x| <= |y| on canonical rationals, by cross-multiplication
AbsLeq(x, y) == IntAbs(x.p) * y.q <= IntAbs(y.p) * x.q

\* X with the M x M identity appended to its N columns
AugmentIdentity(X, M, N) ==
    Array(M, LAMBDA i : Array(N + M, LAMBDA j :
        IF j < N THEN X[i][j] ELSE IF j - N = i THEN One ELSE Zero))

\* R is row-equivalent to X: reducing [X | I] leaves [R | E] with an
\* invertible E and E * X = R
RowEquivalent(X, R, M, N) ==
    LET G == gauss(AugmentIdentity(X, M, N), M, N + M)
        E == Array(M, LAMBDA i : Array(M, LAMBDA j : G[i][j + N]))
    IN  /\ ~ Singular(E, M)
        /\ \A i \in 0..(M - 1) : \A j \in 0..(N - 1) :
              /\ G[i][j] = R[i][j]
              /\ DotFrom(E, X, i, j, M - 1) = R[i][j]

\* C16: every iteration of gauss takes as pivot candidate the entry of
\* greatest absolute value at or below row r of its column; when that entry
\* is zero the column is skipped and r and A stay, otherwise r advances.
\* The matrix returned is row-equivalent to the argument and in reduced row
\* echelon form: the pivot columns increase strictly with the row, each
\* pivot is 1, the first non-zero entry of its row and the only non-zero
\* entry of its column, and the rows after the last pivot row are zero.
C16_ReducedEchelon ==
    /\ elim.kind # NoValue =>
          LET st == elim.step
          IN  st.taken # NoValue =>
                /\ st.k \in st.r..(elim.M - 1)
                /\ \A i \in st.r..(elim.M - 1) :
                      AbsLeq(st.A[i][st.j], st.A[st.k][st.j])
                /\ elim.j = st.j + 1
                /\ st.taken = "skip" <=> st.A[st.k][st.j].p = 0
                /\ st.taken = "skip" => (elim.r = st.r /\ elim.A = st.A)
                /\ st.taken = "pivot" =>
                      (elim.r = st.r + 1 /\ elim.piv[elim.r] = st.j)
    /\ elim.kind = "returned" =>
          LET R == elim.A
              rows == 0..(elim.M - 1)
              cols == 0..(elim.N - 1)
          IN  /\ R = gauss(elim.In, elim.M, elim.N)
              /\ Len(elim.piv) = elim.r
              /\ \A i \in 1..elim.r : elim.piv[i] \in cols
              /\ \A i \in 1..(elim.r - 1) : elim.piv[i] < elim.piv[i + 1]
              /\ \A i \in 1..elim.r :
                    /\ R[i - 1][elim.piv[i]] = One
                    /\ \A jj \in cols : jj < elim.piv[i] => R[i - 1][jj] = Zero
                    /\ \A i2 \in rows :
                          i2 # i - 1 => R[i2][elim.piv[i]] = Zero
              /\ \A i \in rows : i >= elim.r =>
                    \A jj \in cols : R[i][jj] = Zero
              /\ RowEquivalent(elim.In, R, elim.M, elim.N)

\* C16 witness: on ((1, 1), (-2, -2)) the pivot of column 0 was -2 in row 1,
\* the rows were swapped, column 1 was skipped, and ((1, 1), (0, 0)) was
\* returned with a zero row after the only pivot row.
C16_Witness ==
    /\ elim.kind = "returned" /\ elim.M = 2 /\ elim.N = 2
    /\ elim.In[0][0] = One /\ elim.In[0][1] = One
    /\ elim.In[1][0] = Rational(-2, 1) /\ elim.In[1][1] = Rational(-2, 1)
    /\ elim.piv = <<0>> /\ elim.r = 1
    /\ elim.step.taken = "skip" /\ elim.step.j = 1
    /\ elim.A[0][1] = One /\ elim.A[1][1] = Zero

-----------------------------------------------------------------------------
(* gauss_solve called on small square systems, in either build              *)

InitSolve ==
    /\ gN \in 1..MaxN
    /\ gA \in SqMatrices(gN, EntryValues)
    /\ gInv = [kind |-> NoValue]
    /\ sol = [kind |-> NoValue]
    /\ ndebug \in BOOLEAN
    /\ SchemeIdle /\ RatIdle /\ PolyIdle /\ ElimIdle

\* auto x = gauss_solve(A, b)
GaussSolve ==
    /\ sol.kind = NoValue
    /\ \E b \in [0..(gN - 1) -> EntryValues] :
         LET out == IF ndebug THEN gauss_solveNDEBUG(gA, b, gN)
                              ELSE gauss_solve(gA, b, gN)
         IN  sol' = out @@ [b |-> b]
    /\ UNCHANGED <<gaussVars, schemeVars, ratVars, polyVars, elimVars, ndebug>>

NextSolve == GaussSolve

SpecSolve == InitSolve /\ [][NextSolve]_vars

\* row i of A times the vector x, summed up to column d
RECURSIVE RowDotFrom(_, _, _, _)
RowDotFrom(A, x, i, d) ==
    IF d < 0 THEN Zero
    ELSE Add(RowDotFrom(A, x, i, d - 1), Mul(A[i][d], x[d]))

\* C17 (as claimed): gauss_solve(A, b) on a singular A never returns a
\* solution: for every b the reduced matrix has a zero diagonal entry in its
\* last row and the final division fails in the Rational constructor; on a
\* non-singular A every diagonal entry of the reduced matrix is 1 and the
\* returned x satisfies A x = b.
C17_SolveSingularFails ==
    sol.kind # NoValue =>
        LET reduced == gauss(AugmentVector(gA, sol.b, gN), gN, gN + 1)
        IN  IF Singular(gA, gN)
            THEN /\ is_zero(reduced[gN - 1][gN - 1])
                 /\ sol.kind = "assert"
            ELSE /\ \A i \in 0..(gN - 1) : reduced[i][i] = One
                 /\ sol.kind = "array"
                 /\ \A i \in 0..(gN - 1) :
                       RowDotFrom(gA, sol.x, i, gN - 1) = sol.b[i]

-----------------------------------------------------------------------------
(* The Rational operators applied to small canonical operands               *)

\* numerators and denominators handed to the constructor: -MaxInt..MaxInt
MaxInt == 3

InitRational ==
    /\ lhs = Zero /\ rhs = Zero       \* Rational<T>{}: p = 0, q = 1
    /\ op = NoValue /\ res = Zero /\ flag = FALSE /\ den = 1
    /\ SchemeIdle /\ GaussIdle /\ PolyIdle
    /\ ElimIdle /\ SolveIdle /\ ndebug \in BOOLEAN

\* Rational<T> a(pp, qq), in the build at hand.  When the assertion on qq
\* fires nothing is constructed and the operands stay as they are; otherwise
\* the new value becomes the left operand and the previous left operand the
\* right one.
Construct ==
    \E pp \in (-MaxInt)..MaxInt : \E qq \in (-MaxInt)..MaxInt :
        LET a == IF ndebug THEN RationalNDEBUG(pp, qq) ELSE Rational(pp, qq)
        IN  /\ res' = a
            /\ op' = "Rational"
            /\ den' = qq
            /\ lhs' = IF is_valid(a) THEN a ELSE lhs
            /\ rhs' = IF is_valid(a) THEN lhs ELSE rhs
            /\ flag' = FALSE
            /\ UNCHANGED <<schemeVars, gaussVars, polyVars,
                 elimVars, solveVars, ndebug>>

\* Rational<T>(a.p, a.q) on the stored fields of a
Reconstruct ==
    /\ res' = Rational(lhs.p, lhs.q)
    /\ op' = "again"
    /\ den' = lhs.q
    /\ UNCHANGED <<lhs, rhs, flag, schemeVars, gaussVars, polyVars,
                 elimVars, solveVars, ndebug>>

\* a * b
Multiply ==
    /\ res' = Mul(lhs, rhs)
    /\ op' = "*"
    /\ den' = lhs.q * rhs.q
    /\ UNCHANGED <<lhs, rhs, flag, schemeVars, gaussVars, polyVars,
                 elimVars, solveVars, ndebug>>

\* a / b
Divide ==
    /\ res' = IF ndebug THEN DivNDEBUG(lhs, rhs) ELSE Div(lhs, rhs)
    /\ op' = "/"
    /\ den' = lhs.q * rhs.p
    /\ UNCHANGED <<lhs, rhs, flag, schemeVars, gaussVars, polyVars,
                 elimVars, solveVars, ndebug>>

\* a + b
Plus ==
    /\ res' = Add(lhs, rhs)
    /\ op' = "+"
    /\ den' = StdLcm(lhs.q, rhs.q)
    /\ UNCHANGED <<lhs, rhs, flag, schemeVars, gaussVars, polyVars,
                 elimVars, solveVars, ndebug>>

\* a - b
Minus ==
    /\ res' = Sub(lhs, rhs)
    /\ op' = "-"
    /\ den' = StdLcm(lhs.q, rhs.q)
    /\ UNCHANGED <<lhs, rhs, flag, schemeVars, gaussVars, polyVars,
                 elimVars, solveVars, ndebug>>

\* abs(a)
AbsCall ==
    /\ res' = abs(lhs)
    /\ op' = "abs"
    /\ den' = IntAbs(lhs.q)
    /\ UNCHANGED <<lhs, rhs, flag, schemeVars, gaussVars, polyVars,
                 elimVars, solveVars, ndebug>>

\* signbit(a)
SignbitCall ==
    /\ flag' = signbit(lhs)
    /\ op' = "signbit"
    /\ UNCHANGED <<lhs, rhs, res, den, schemeVars, gaussVars, polyVars,
                 elimVars, solveVars, ndebug>>

\* a < b
Less ==
    /\ flag' = Lt(lhs, rhs)
    /\ op' = "<"
    /\ UNCHANGED <<lhs, rhs, res, den, schemeVars, gaussVars, polyVars,
                 elimVars, solveVars, ndebug>>

\* a > b
Greater ==
    /\ flag' = Gt(lhs, rhs)
    /\ op' = ">"
    /\ UNCHANGED <<lhs, rhs, res, den, schemeVars, gaussVars, polyVars,
                 elimVars, solveVars, ndebug>>

\* a == b
Equal ==
    /\ flag' = Eq(lhs, rhs)
    /\ op' = "=="
    /\ UNCHANGED <<lhs, rhs, res, den, schemeVars, gaussVars, polyVars,
                 elimVars, solveVars, ndebug>>

\* The binary operators take either operand as an integer too and pass both
\* through as_rational first: an integer operand n is the operand
\* as_rational(n) = n/1, which Construct provides.
NextRational ==
    \/ Construct \/ Reconstruct
    \/ Multiply \/ Divide \/ Plus \/ Minus
    \/ AbsCall \/ SignbitCall
    \/ Less \/ Greater \/ Equal

SpecRational == InitRational /\ [][NextRational]_vars

\* q > 0 and no common divisor of |p| and q above 1 (so zero is 0/1)
Canonical(r) ==
    /\ r.q > 0
    /\ \A d \in 2..r.q : ~ (r.p % d = 0 /\ r.q % d = 0)

\* C6: every Rational the constructor builds from a pair with q # 0, and
\* every result of *, /, +, -, abs on canonical operands (divisor not zero)
\* is canonical; constructing again from a canonical pair returns it.
C6_Canonical ==
    /\ Canonical(lhs) /\ Canonical(rhs)
    /\ (op = "Rational" /\ is_valid(res)) => Canonical(res)
    /\ op \in {"*", "+", "-", "abs"} => Canonical(res)
    /\ (op = "/" /\ ~ is_zero(rhs)) => Canonical(res)
    /\ op = "again" => res = lhs

\* C6 witness: 3/2 divided by -3 built Rational(3, -6) and gave -1/2,
\* which needed both the reduction by 3 and the sign normalisation.
C6_Witness ==
    /\ op = "/" /\ lhs = Rat(3, 2) /\ rhs = Rat(-3, 1)
    /\ res = Rat(-1, 2)

\* C7 (as claimed): signbit(r) is true iff r is negative.
C7_SignbitIffNegative ==
    op = "signbit" => (flag <=> lhs.p < 0)

\* C11 (as claimed): a constructor call that is handed a zero denominator,
\* directly or by operator/ with a divisor whose numerator is 0, fails and
\* produces no Rational, whatever the numerator.
C11_ZeroDenominatorFails ==
    (op \in {"Rational", "/"} /\ den = 0) => ~ is_valid(res)

\* C12: on canonical operands (an integer n being n/1) exactly one of
\* a < b, a == b, a > b holds, a < b holds exactly when b > a does, and the
\* three operators return what the exact values say: a < b iff a's value is
\* the smaller one, also for an operand built from a negative denominator.
C12_TotalOrder ==
    /\ Cardinality({c \in {"<", "==", ">"} :
            \/ c = "<" /\ Lt(lhs, rhs)
            \/ c = "==" /\ Eq(lhs, rhs)
            \/ c = ">" /\ Gt(lhs, rhs)}) = 1
    /\ Lt(lhs, rhs) <=> Gt(rhs, lhs)
    /\ op = "<" => (flag <=> lhs.p * rhs.q < rhs.p * lhs.q)
    /\ op = ">" => (flag <=> lhs.p * rhs.q > rhs.p * lhs.q)
    /\ op = "==" => (flag <=> lhs = rhs)

\* C12 witness: -2/3, built by Rational(2, -3), was found smaller than 1/3.
C12_Witness ==
    /\ op = "<" /\ den = -3
    /\ lhs = Rat(-2, 3) /\ rhs = Rat(1, 3)
    /\ flag = TRUE

\* C15: a + b and b + a are the same canonical pair, and so are a * b and
\* b * a, for canonical a and b; with b = n/1 this is n + a against a + n
\* and n * a against a * n for an integer n.
C15_Commutative ==
    /\ op = "+" => (res = Add(rhs, lhs) /\ Canonical(res))
    /\ op = "*" => (res = Mul(rhs, lhs) /\ Canonical(res))

\* C15 witness: 2/3 + 2 gave 8/3, the sum of an integer and a Rational
\* with different denominators.
C15_Witness ==
    /\ op = "+" /\ lhs = Rat(2, 3) /\ rhs = Rat(2, 1)
    /\ res = Rat(8, 3)

-----------------------------------------------------------------------------
(* The Polynomial member functions called on small polynomials              *)

\* the template parameter N of the polynomials: two channels
NChan == 2

\* the largest template parameter Degree
MaxDegree == 2

\* the largest argument of derivate
MaxOrder == 3

\* interval endpoints: the half-integers n/2, n in -MaxEnd..MaxEnd
MaxEnd == 1

\* coeffs[d] of the receivers is drawn from these rows (channel 0,
\* channel 1)
CoeffRows ==
    { 0 :> Rational(0, 1)  @@ 1 :> Rational(0, 1),
      0 :> Rational(-1, 1) @@ 1 :> Rational(0, 1),
      0 :> Rational(0, 1)  @@ 1 :> Rational(1, 2),
      0 :> Rational(1, 2)  @@ 1 :> Rational(-1, 1),
      0 :> Rational(2, 1)  @@ 1 :> Rational(-3, 2) }

Endpoints == {Rational(n, 2) : n \in (-MaxEnd)..MaxEnd}

InitPoly ==
    /\ \E Degree \in 0..MaxDegree :
         \E coeffs \in [0..Degree -> CoeffRows] :
            P = Poly(Degree, NChan, coeffs)
    /\ pop = [name |-> NoValue]
    /\ Q = NoValue
    /\ vec = NoValue
    /\ SchemeIdle /\ GaussIdle /\ RatIdle
    /\ ElimIdle /\ SolveIdle /\ AssertBuild

\* auto DP = P.derivate(order)
Derivate ==
    /\ pop.name = NoValue
    /\ \E order \in 0..MaxOrder :
         /\ Q' = derivate(P, order)
         /\ pop' = [name |-> "derivate", order |-> order]
    /\ UNCHANGED <<P, vec, schemeVars, gaussVars, ratVars,
                 elimVars, solveVars, ndebug>>

\* auto IP = P.primitive()
Primitive ==
    /\ pop.name = NoValue
    /\ Q' = primitive(P)
    /\ pop' = [name |-> "primitive"]
    /\ UNCHANGED <<P, vec, schemeVars, gaussVars, ratVars,
                 elimVars, solveVars, ndebug>>

\* auto R = P.primitive().derivate()
PrimitiveDerivate ==
    /\ pop.name = NoValue
    /\ Q' = derivate(primitive(P), 1)
    /\ pop' = [name |-> "primitive_derivate"]
    /\ UNCHANGED <<P, vec, schemeVars, gaussVars, ratVars,
                 elimVars, solveVars, ndebug>>

\* auto I = P.integrate(a, b)
Integrate ==
    /\ pop.name = NoValue
    /\ \E a \in Endpoints : \E b \in Endpoints :
         /\ vec' = integrate(P, a, b)
         /\ pop' = [name |-> "integrate", a |-> a, b |-> b]
    /\ UNCHANGED <<P, Q, schemeVars, gaussVars, ratVars,
                 elimVars, solveVars, ndebug>>

NextPoly == Derivate \/ Primitive \/ PrimitiveDerivate \/ Integrate

SpecPoly == InitPoly /\ [][NextPoly]_vars

\* derivate(1) applied k times
RECURSIVE DerivateTimes(_, _)
DerivateTimes(p, k) ==
    IF k = 0 THEN p ELSE derivate(DerivateTimes(p, k - 1), 1)

\* C8 (as claimed): for every polynomial of Degree >= 1, derivate(1) keeps
\* the shape and has coeffs'[d-1][i] = d * coeffs[d][i] for d in 1..Degree
\* and coeffs'[Degree][i] = 0; derivate(k) is derivate(1) applied k times;
\* derivate(0) is the receiver.
C8_Derivate ==
    (pop.name = "derivate" /\ P.Degree >= 1) =>
        /\ Q.Degree = P.Degree /\ Q.N = P.N
        /\ pop.order = 0 => Q = P
        /\ pop.order = 1 =>
              \A i \in 0..(P.N - 1) :
                 /\ \A d \in 1..P.Degree :
                       Q.coeffs[d - 1][i]
                           = Mul(as_rational(d), P.coeffs[d][i])
                 /\ Q.coeffs[P.Degree][i] = Zero
        /\ Q = DerivateTimes(P, pop.order)

\* C9 (as claimed): for every polynomial P of any Degree >= 0,
\* P.primitive().derivate() has the rows 0..Degree of P and a zero row
\* Degree+1.
C9_PrimitiveDerivate ==
    pop.name = "primitive_derivate" =>
        /\ Q.Degree = P.Degree + 1 /\ Q.N = P.N
        /\ \A i \in 0..(P.N - 1) :
              /\ \A d \in 0..P.Degree : Q.coeffs[d][i] = P.coeffs[d][i]
              /\ Q.coeffs[P.Degree + 1][i] = Zero

\* x^n, n >= 1
RECURSIVE Power(_, _)
Power(x, n) == IF n = 1 THEN x ELSE Mul(Power(x, n - 1), x)

\* sum over d' <= d of coeffs[d'][i] * (b^(d'+1) - a^(d'+1)) / (d'+1)
RECURSIVE IntegralFrom(_, _, _, _, _)
IntegralFrom(p, a, b, i, d) ==
    IF d < 0 THEN Zero
    ELSE Add(IntegralFrom(p, a, b, i, d - 1),
             Mul(p.coeffs[d][i],
                 Div(Sub(Power(b, d + 1), Power(a, d + 1)),
                     as_rational(d + 1))))

\* C10: integrate(a, b) is primitive() at b minus primitive() at a in every
\* channel, which is the exact integral over [a, b]; hence
\* integrate(a, b)[i] = -integrate(b, a)[i] and integrate(a, a) is zero.
C10_Integrate ==
    pop.name = "integrate" =>
        \A i \in 0..(P.N - 1) :
           /\ vec[i] = Sub(Eval(primitive(P), pop.b)[i],
                           Eval(primitive(P), pop.a)[i])
           /\ vec[i] = IntegralFrom(P, pop.a, pop.b, i, P.Degree)
           /\ vec[i] = Sub(Zero, integrate(P, pop.b, pop.a)[i])
           /\ pop.a = pop.b => vec[i] = Zero

\* C10 witness: X^2/2 in channel 1 integrated from -1/2 to 1/2 gave 1/24.
C10_Witness ==
    /\ pop.name = "integrate"
    /\ pop.a = Rational(-1, 2) /\ pop.b = Rational(1, 2)
    /\ P.Degree = 2 /\ P.coeffs[2][1] = Rational(1, 2)
    /\ P.coeffs[1][1] = Zero /\ P.coeffs[0][1] = Zero
    /\ vec[1] = Rational(1, 24)

=============================================================================
